---- MODULE Spec2Model ----
(***************************************************************************)
(* Stripe webhook relay (revaux-stripe-backend).                           *)
(*                                                                         *)
(* The repository holds three variants of server.js:                       *)
(*   "server"   src/server.js          (express.json mounted globally,     *)
(*                                      fire-and-forget confirm call)      *)
(*   "part_000" src/unnamed/part_000   (awaited fetch to InfinityFree)     *)
(*   "part_001" src/unnamed/part_001   (fetch to /confirm-order, direct    *)
(*                                      MySQL write, file fallback, admin  *)
(*                                      email, POST /confirm-order route)  *)
(* One deployment runs one variant.  Node runs a handler atomically from   *)
(* one await to the next, so every action below is the code between two    *)
(* awaits; the outcome of an awaited external call (HTTP, MySQL, SMTP) is  *)
(* an action of its own, taken by the environment.                         *)
(***************************************************************************)
EXTENDS Integers, Sequences, FiniteSets, TLC

\* Number of HTTP requests in flight at the same server.
NumRequests == 2

Tasks == 1..NumRequests

Variants == {"server", "part_000", "part_001"}

\* Payment-intent ids carried by the traffic.
PaymentIntents == {"pi_1", "pi_2"}

\* event.type values of the processor's events.
EventTypes == {"payment_intent.succeeded", "payment_intent.payment_failed"}

VARIABLES
    variant,   \* which server.js is deployed
    env,       \* process.env, as far as the handlers read it
    req,       \* req[t]: the HTTP request task t serves
    task,      \* task[t]: position and locals of the handler of request t
    file,      \* contents of ./pending_orders.json
    orders,    \* rows of the MySQL table `orders`
    clock      \* the wall clock read by new Date()

vars == <<variant, env, req, task, file, orders, clock>>

----------------------------------------------------------------------------
\* Requests

\* POST /webhook: Content-Type, and whether the stripe-signature header is
\* the processor's signature of the body bytes.  The body is opaque until
\* constructEvent decodes it.
WebhookRequests ==
    [route : {"/webhook"}, ctJson : BOOLEAN, sigOK : BOOLEAN,
     pid : {"none"}, complete : {FALSE}]

\* POST /confirm-order: a JSON text carrying payment_intent_id (pid), and
\* customer_id and cart_id when complete.
ConfirmRequests ==
    [route : {"/confirm-order"}, ctJson : BOOLEAN, sigOK : {FALSE},
     pid : PaymentIntents, complete : BOOLEAN]

Requests == WebhookRequests \cup ConfirmRequests

\* The OrderConfirmation built from a payment intent.
Payload(pid) == [payment_intent_id |-> pid, status |-> "paid"]

----------------------------------------------------------------------------
\* Body parsing middleware

\* body-parser: a parser leaves a body alone that an earlier parser has read
\* (req._body), reads it when the Content-Type matches its type, and
\* otherwise leaves req.body empty.
ApplyParser(parser, ctJson, form) ==
    IF form \in {"raw", "parsed"} THEN form
    ELSE IF ctJson THEN (IF parser = "json" THEN "parsed" ELSE "raw")
    ELSE "empty"

\* The body parsers a request of `route` passes before its handler, in the
\* order of registration.
ParsersBefore(v, route) ==
    IF v = "server"
        THEN IF route = "/webhook" THEN <<"json", "raw">> ELSE <<"json">>
        ELSE IF route = "/webhook" THEN <<"raw">> ELSE <<>>

RECURSIVE RunParsers(_, _, _)
RunParsers(ps, ctJson, form) ==
    IF ps = <<>> THEN form
    ELSE RunParsers(Tail(ps), ctJson, ApplyParser(Head(ps), ctJson, form))

\* req.body as the handler sees it: "undefined", "empty", "raw" or "parsed".
BodyForm(v, r) == RunParsers(ParsersBefore(v, r.route), r.ctJson, "undefined")

\* Routes the variant registers with app.post.
HasRoute(v, route) ==
    \/ route = "/webhook"
    \/ route = "/confirm-order" /\ v = "part_001"

\* A mutation of constructEvent: the signature is not checked.
constructEventUnchecked(form, sigOK) == TRUE

\* stripe.webhooks.constructEvent: TRUE when it returns the event, FALSE when
\* it throws.  It needs the raw bytes and their signature.
constructEvent(form, sigOK) == form = "raw" /\ sigOK

----------------------------------------------------------------------------
\* The fallback log

OldEntry == [received_at |-> 0, payload |-> Payload("pi_1")]

\* What pending_orders.json may hold when the server starts.
InitialLogs ==
    { [kind |-> "missing",    arr |-> <<>>],
      [kind |-> "empty",      arr |-> <<>>],
      [kind |-> "unparsable", arr |-> <<>>],
      [kind |-> "nonarray",   arr |-> <<>>],
      [kind |-> "array",      arr |-> <<>>],
      [kind |-> "array",      arr |-> <<OldEntry>> ] }

\* A mutation of ReadLog: the existing log is never read back.
ReadLogIgnoringFile(f) == <<>>

\* arr after the try block of saveFallbackOrder: the parsed array, or [] for
\* a missing, empty or unparsable file.
ReadLog(f) == IF f.kind = "array" THEN f.arr ELSE <<>>

\* saveFallbackOrder(payload) at time `now`: the file it leaves, and what it
\* threw ("no" when it returned).  JSON.parse of a text that is valid JSON but
\* no array gives a value without push, so arr.push throws outside the try;
\* writeFileSync throws when the file system refuses the write.
saveFallbackOrder(f, payload, now, writable) ==
    IF f.kind = "nonarray" THEN [threw |-> "push", file |-> f]
    ELSE IF ~writable THEN [threw |-> "write", file |-> f]
    ELSE [threw |-> "no",
          file  |-> [kind |-> "array",
                     arr  |-> Append(ReadLog(f),
                                     [received_at |-> now, payload |-> payload])]]

----------------------------------------------------------------------------
\* The orders table

\* Two rows collide on a unique key of `orders`.
DuplicateKey(a, b) == a.stripe_payment_intent = b.stripe_payment_intent

OrderRow(pid) == [stripe_payment_intent |-> pid, payment_status |-> "Paid"]

\* INSERT ... ON DUPLICATE KEY UPDATE payment_status, stripe_payment_intent,
\* stripe_receipt_url.
Upsert(rows, row) ==
    IF \E i \in 1..Len(rows) : DuplicateKey(rows[i], row)
        THEN [i \in 1..Len(rows) |->
                 IF DuplicateKey(rows[i], row)
                     THEN [rows[i] EXCEPT
                              !.payment_status = row.payment_status,
                              !.stripe_payment_intent = row.stripe_payment_intent]
                     ELSE rows[i]]
        ELSE Append(rows, row)

----------------------------------------------------------------------------
\* Handler state

NewTask ==
    [pc      |-> "arrived",  \* arrived, await_fetch, await_connect,
                             \* await_execute, await_mail, done, crashed
     status  |-> 0,          \* HTTP status sent, 0 while none is
     body    |-> "none",
     verifierInput |-> "none", \* form of req.body given to constructEvent
     evType  |-> "none",
     pid     |-> "none",     \* payload.payment_intent_id once built
     fetch   |-> "none",     \* none, pending, ok, error
     db      |-> "none",     \* none, skipped, pending, ok, error
     saved   |-> "none",     \* none, saved, or what saveFallbackOrder
                             \* threw on: push, write
     savedAt |-> 0,
     mail    |-> "none"]     \* none, skipped, sending, sent, failed

Respond(tk, s, b) == [tk EXCEPT !.pc = "done", !.status = s, !.body = b]

EnvsOf(v) ==
    IF v = "part_001"
        THEN [DB : BOOLEAN, ADMIN_EMAIL : BOOLEAN, SMTP_HOST : BOOLEAN]
        ELSE {[DB |-> FALSE, ADMIN_EMAIL |-> FALSE, SMTP_HOST |-> FALSE]}

LogsOf(v) ==
    IF v = "part_001" THEN InitialLogs ELSE {[kind |-> "missing", arr |-> <<>>]}

Init ==
    /\ variant \in Variants
    /\ env \in EnvsOf(variant)
    /\ file \in LogsOf(variant)
    /\ req \in [Tasks -> Requests]
    /\ task = [t \in Tasks |-> NewTask]
    /\ orders = <<>>
    /\ clock = 0

----------------------------------------------------------------------------
\* Handler steps

\* part_001 lines 165-177: save locally, mail the admin, answer.
Fallback(t, tk) ==
    \E writable \in BOOLEAN :
        LET r == saveFallbackOrder(file, Payload(tk.pid), clock + 1, writable) IN
        IF r.threw # "no"
            THEN /\ task' = [task EXCEPT ![t] =
                        Respond([tk EXCEPT !.saved = r.threw],
                                500, "Failed to persist order")]
                 /\ UNCHANGED <<file, clock>>
            ELSE /\ file' = r.file
                 /\ clock' = clock + 1
                 /\ task' = [task EXCEPT ![t] =
                        LET s == [tk EXCEPT !.saved = "saved", !.savedAt = clock + 1] IN
                        IF env.ADMIN_EMAIL /\ env.SMTP_HOST
                            THEN [s EXCEPT !.pc = "await_mail", !.mail = "sending"]
                            ELSE Respond([s EXCEPT !.mail = "skipped"],
                                         200, "received_fallback_saved")]

\* The webhook handler after its awaited fetch has settled.
AfterFetch(t, tk) ==
    IF variant = "part_001"
        THEN IF env.DB
                 THEN /\ task' = [task EXCEPT ![t] =
                             [tk EXCEPT !.pc = "await_connect", !.db = "pending"]]
                      /\ UNCHANGED <<file, clock>>
                 ELSE Fallback(t, [tk EXCEPT !.db = "skipped"])
        ELSE /\ task' = [task EXCEPT ![t] = Respond(tk, 200, "received")]
             /\ UNCHANGED <<file, clock>>

\* The webhook route up to its first await.
WebhookReceive(t) ==
    LET form == BodyForm(variant, req[t])
        tk   == [task[t] EXCEPT !.verifierInput = form]
    IN  IF ~constructEvent(form, req[t].sigOK)
            THEN task' = [task EXCEPT ![t] = Respond(tk, 400, "Webhook Error")]
            ELSE \E ty \in EventTypes, p \in PaymentIntents :
                    IF ty = "payment_intent.succeeded"
                        THEN IF variant = "server"
                                 THEN task' = [task EXCEPT ![t] =
                                         Respond([tk EXCEPT !.evType = ty, !.pid = p,
                                                            !.fetch = "pending"],
                                                 200, "received")]
                                 ELSE task' = [task EXCEPT ![t] =
                                         [tk EXCEPT !.evType = ty, !.pid = p,
                                                    !.pc = "await_fetch",
                                                    !.fetch = "pending"]]
                        ELSE task' = [task EXCEPT ![t] =
                                 Respond([tk EXCEPT !.evType = ty], 200, "received")]

\* The /confirm-order route up to its first await.  Destructuring an
\* undefined req.body throws inside the async handler: Express 4 leaves the
\* request unanswered, Express 5 answers 500.
ConfirmReceive(t) ==
    LET form == BodyForm(variant, req[t]) IN
    IF form = "undefined"
        THEN \E answered \in BOOLEAN :
                task' = [task EXCEPT ![t] =
                    IF answered
                        THEN Respond(task[t], 500, "Internal Server Error")
                        ELSE [task[t] EXCEPT !.pc = "crashed"]]
        ELSE IF form # "parsed" \/ ~req[t].complete
            THEN task' = [task EXCEPT ![t] = Respond(task[t], 400, "Missing fields")]
            ELSE task' = [task EXCEPT ![t] =
                    [task[t] EXCEPT !.pid = req[t].pid, !.pc = "await_connect",
                                    !.db = "pending"]]

\* Express takes a request off the socket and runs its route.
Receive(t) ==
    /\ task[t].pc = "arrived"
    /\ IF ~HasRoute(variant, req[t].route)
           THEN task' = [task EXCEPT ![t] = Respond(task[t], 404, "Not Found")]
           ELSE IF req[t].route = "/webhook"
               THEN WebhookReceive(t)
               ELSE ConfirmReceive(t)
    /\ UNCHANGED <<variant, env, req, file, orders, clock>>

\* fetch resolves (any HTTP status) and response.text() is read.
FetchResolves(t) ==
    /\ task[t].pc = "await_fetch"
    /\ AfterFetch(t, [task[t] EXCEPT !.fetch = "ok"])
    /\ UNCHANGED <<variant, env, req, orders>>

\* fetch or response.text() rejects.
FetchRejects(t) ==
    /\ task[t].pc = "await_fetch"
    /\ AfterFetch(t, [task[t] EXCEPT !.fetch = "error"])
    /\ UNCHANGED <<variant, env, req, orders>>

\* The code after a failed database write.
DbFailed(t, tk) ==
    IF req[t].route = "/webhook"
        THEN Fallback(t, tk)
        ELSE /\ task' = [task EXCEPT ![t] = Respond(tk, 500, "DB update failed")]
             /\ UNCHANGED <<file, clock>>

\* mysql.createConnection resolves; conn.execute is sent.
ConnectResolves(t) ==
    /\ task[t].pc = "await_connect"
    /\ task' = [task EXCEPT ![t].pc = "await_execute"]
    /\ UNCHANGED <<variant, env, req, file, orders, clock>>

\* mysql.createConnection rejects, at the latest after connectTimeout.
ConnectRejects(t) ==
    /\ task[t].pc = "await_connect"
    /\ DbFailed(t, [task[t] EXCEPT !.db = "error"])
    /\ UNCHANGED <<variant, env, req, orders>>

\* conn.execute resolves: the row is stored; then conn.end() settles.
ExecuteResolves(t) ==
    /\ task[t].pc = "await_execute"
    /\ orders' = Upsert(orders, OrderRow(task[t].pid))
    /\ \E endOk \in BOOLEAN :
          IF endOk
              THEN /\ task' = [task EXCEPT ![t] =
                          Respond([task[t] EXCEPT !.db = "ok"], 200,
                                  IF req[t].route = "/webhook" THEN "received" ELSE "ok")]
                   /\ UNCHANGED <<file, clock>>
              ELSE DbFailed(t, [task[t] EXCEPT !.db = "ok"])
    /\ UNCHANGED <<variant, env, req>>

\* conn.execute rejects.
ExecuteRejects(t) ==
    /\ task[t].pc = "await_execute"
    /\ DbFailed(t, [task[t] EXCEPT !.db = "error"])
    /\ UNCHANGED <<variant, env, req, orders>>

\* transporter.sendMail resolves.
MailResolves(t) ==
    /\ task[t].pc = "await_mail"
    /\ task' = [task EXCEPT ![t] =
            Respond([task[t] EXCEPT !.mail = "sent"], 200, "received_fallback_saved")]
    /\ UNCHANGED <<variant, env, req, file, orders, clock>>

\* transporter.sendMail rejects: the handler's catch answers 500.
MailRejects(t) ==
    /\ task[t].pc = "await_mail"
    /\ task' = [task EXCEPT ![t] =
            Respond([task[t] EXCEPT !.mail = "failed"], 500, "Failed to persist order")]
    /\ UNCHANGED <<variant, env, req, file, orders, clock>>

Next ==
    \E t \in Tasks :
        \/ Receive(t)
        \/ FetchResolves(t)
        \/ FetchRejects(t)
        \/ ConnectResolves(t)
        \/ ConnectRejects(t)
        \/ ExecuteResolves(t)
        \/ ExecuteRejects(t)
        \/ MailResolves(t)
        \/ MailRejects(t)

Spec == Init /\ [][Next]_vars

\* Traffic made of webhook deliveries only.
InitWebhook ==
    /\ Init
    /\ req \in [Tasks -> WebhookRequests]

SpecWebhook == InitWebhook /\ [][Next]_vars

\* The event loop runs a request that has arrived; mysql.createConnection
\* settles within connectTimeout and nodemailer within its socket timeouts.
\* Nothing bounds fetch or conn.execute, so no fairness is stated for them.
Fairness ==
    \A t \in Tasks :
        /\ WF_vars(Receive(t))
        /\ WF_vars(ConnectResolves(t) \/ ConnectRejects(t))
        /\ WF_vars(MailResolves(t) \/ MailRejects(t))

FairSpec == InitWebhook /\ [][Next]_vars /\ Fairness

----------------------------------------------------------------------------
\* Properties

IsWebhook(t) == req[t].route = "/webhook"

\* constructEvent returned the event of request t.
Verified(t) == IsWebhook(t) /\ task[t].evType # "none"

\* The handler of t built an OrderConfirmation.
Built(t) == IsWebhook(t) /\ task[t].pid # "none"

\* The fallback entry written for request t.
EntryOf(t) == [received_at |-> task[t].savedAt, payload |-> Payload(task[t].pid)]

EntriesOf(t) == {i \in 1..Len(file.arr) : file.arr[i] = EntryOf(t)}

\* C1: every webhook request whose signature verification succeeded is
\* answered 200, whatever the event type and whatever happens downstream or
\* in the fallback.
C1_VerifiedAlwaysSuccess ==
    \A t \in Tasks : Verified(t) => task[t].status \in {0, 200}

\* C2: a webhook request whose signature verification fails is answered 400
\* and nothing else happens: no payload, no HTTP call, no database write, no
\* fallback entry, no email.
C2_InvalidSignatureRejected ==
    \A t \in Tasks :
        (/\ IsWebhook(t)
         /\ task[t].pc # "arrived"
         /\ ~(task[t].verifierInput = "raw" /\ req[t].sigOK))
        => /\ task[t].pc = "done"
           /\ task[t].status = 400
           /\ task[t].evType = "none"
           /\ task[t].pid = "none"
           /\ task[t].fetch = "none"
           /\ task[t].db = "none"
           /\ task[t].saved = "none"
           /\ task[t].mail = "none"

C2_Witness ==
    \E t \in Tasks :
        /\ IsWebhook(t) /\ ~req[t].sigOK /\ req[t].ctJson
        /\ task[t].status = 400
        /\ \E u \in Tasks : Built(u)

\* C3: on /webhook the verifier is given the raw body in every variant, so a
\* genuinely signed application/json webhook is never answered 400.
C3_VerifierGetsRawBody ==
    \A t \in Tasks :
        (IsWebhook(t) /\ req[t].ctJson /\ task[t].pc # "arrived")
        => /\ task[t].verifierInput = "raw"
           /\ (req[t].sigOK => task[t].status # 400)

\* C4: a verified payment_intent.succeeded webhook whose downstream HTTP call
\* failed ends with exactly one fallback entry holding its payload and with
\* the answer 200 {received, fallback_saved}.
C4_FailedDeliveryFallsBack ==
    \A t \in Tasks :
        (Built(t) /\ task[t].fetch = "error" /\ task[t].pc = "done")
        => /\ task[t].saved = "saved"
           /\ Cardinality(EntriesOf(t)) = 1
           /\ task[t].status = 200
           /\ task[t].body = "received_fallback_saved"

\* C5: saveFallbackOrder is called only for an OrderConfirmation whose
\* downstream delivery failed: never after the HTTP delivery or the database
\* write succeeded.
C5_FallbackOnlyOnFailure ==
    \A t \in Tasks :
        task[t].saved # "none" => (task[t].fetch # "ok" /\ task[t].db # "ok")

\* C6: no lost update: the entry of every webhook delivery whose
\* saveFallbackOrder returned is in pending_orders.json, however the handlers
\* interleave.
C6_NoLostUpdate ==
    \A t \in Tasks :
        task[t].saved = "saved" => (file.kind = "array" /\ EntriesOf(t) # {})

C6_Witness ==
    \E t, u \in Tasks :
        /\ t # u
        /\ task[t].saved = "saved" /\ task[u].saved = "saved"
        /\ task[u].savedAt > task[t].savedAt
        /\ EntriesOf(t) # {} /\ EntriesOf(u) # {}

\* The rows stored for payment intent p.
RowsOf(p) == {i \in 1..Len(orders) : orders[i].stripe_payment_intent = p}

\* The record of payment intent p was delivered to the downstream upsert and
\* the database reported no failure for it.
Delivered(p) ==
    \E t \in Tasks :
        \/ /\ req[t].route = "/confirm-order" /\ variant = "part_001"
           /\ req[t].pid = p /\ req[t].complete /\ req[t].ctJson
           /\ task[t].pc \in {"done", "crashed"}
           /\ task[t].db # "error"
        \/ /\ IsWebhook(t) /\ task[t].pid = p /\ task[t].db = "ok"

\* C7: once the record of a payment intent was delivered, through
\* /confirm-order or the webhook's database write, once or several times,
\* exactly one order is stored for that intent and it is Paid.
C7_OneOrderPerIntent ==
    \A p \in PaymentIntents :
        Delivered(p)
        => /\ Cardinality(RowsOf(p)) = 1
           /\ \A i \in RowsOf(p) : orders[i].payment_status = "Paid"

\* C8: every webhook request that passed signature verification is
\* eventually answered.
C8_WebhookAlwaysAnswered ==
    \A t \in Tasks : Verified(t) ~> (task[t].status # 0)

\* C9: when the fallback entry was saved and the admin email then fails, the
\* answer is still 200 {received, fallback_saved} and the entry is stored.
C9_MailFailureNotPropagated ==
    \A t \in Tasks :
        task[t].mail = "failed"
        => /\ task[t].status = 200
           /\ task[t].body = "received_fallback_saved"
           /\ EntriesOf(t) # {}

\* C10: every call of saveFallbackOrder that the file system lets write
\* returns without raising, having appended exactly one entry to the log,
\* where a missing or corrupt log counts as empty, and having kept every
\* earlier entry in place.
C10_AppendOnly ==
    [][\A t \in Tasks :
          (task[t].saved = "none" /\ task'[t].saved \notin {"none", "write"})
          => /\ task'[t].saved = "saved"
             /\ file'.kind = "array"
             /\ Len(file'.arr) = (IF file.kind = "array" THEN Len(file.arr) ELSE 0) + 1
             /\ file'.arr[Len(file'.arr)].payload = Payload(task'[t].pid)
             /\ file.kind = "array"
                => \A i \in 1..Len(file.arr) : file'.arr[i] = file.arr[i]]_vars

\* A /confirm-order request that the route of part_001 has finished with.
ConfirmHandled(t) ==
    /\ variant = "part_001"
    /\ req[t].route = "/confirm-order"
    /\ task[t].pc \in {"done", "crashed"}

\* C11: /confirm-order answers 400 when a required field is missing, and
\* otherwise parses the JSON body, reaches the database write and answers
\* 200 when the write succeeded and 500 when it failed.
C11_ConfirmOrderAnswers ==
    \A t \in Tasks :
        ConfirmHandled(t)
        => IF req[t].ctJson /\ req[t].complete
               THEN \/ task[t].status = 200 /\ task[t].db = "ok"
                    \/ task[t].status = 500 /\ task[t].db = "error"
               ELSE task[t].status = 400

====
